---- MODULE Spec2Model ----
(***************************************************************************)
(* Reporting layer of semester2-week2.                                     *)
(*   session_1/3_python/leeds_eats/leeds_eats.py : delivery dashboard      *)
(*   session_2/base.py                           : order analytics tasks   *)
(* The database is the environment: Init draws the table contents from     *)
(* bounded sets, every action is one report function, which reads the      *)
(* tables and leaves what it printed / returned in `out`.                  *)
(* The two sessions read two databases (food_delivery.db, orders.db) whose  *)
(* tables share names: each specification fills the tables with the rows   *)
(* of its own database.  Money is counted in pence.                        *)
(* `menu` is the menu loop of leeds_eats.py that waits for input ("none"   *)
(* when the report functions are called without a menu), `typed` what the  *)
(* last turn of that loop read from the terminal.                          *)
(***************************************************************************)
EXTENDS Integers, Sequences, FiniteSets, TLC

VARIABLES customers, orders, deliveries, drivers, products, order_items,
          today, out, menu, typed

vars == <<customers, orders, deliveries, drivers, products, order_items,
          today, out, menu, typed>>

tables == <<customers, orders, deliveries, drivers, products, order_items>>

\* ------------------------------------------------------------------ bounds
MaxCustomers == 2
MaxOrders == 2
MaxDrivers == 2
MaxDeliveries == 2
\* session 2 (orders.db)
MaxProducts == 2
MaxItems == 3
MaxBaskets == 2
MaxS2Customers == 2
MaxS2Orders == 3

\* ------------------------------------------------------- SQL / Python values
\* A nullable value is <<>> (SQL NULL, Python None) or <<v>>.
NULL == <<>>
Some(v) == <<v>>
Val(x) == x[1]

\* COALESCE(x, d)
Coalesce(x, d) == IF x = NULL THEN d ELSE Val(x)

\* the sum of the function f over its domain
SumOver(f) ==
    LET RECURSIVE go(_)
        go(T) == IF T = {} THEN 0
                 ELSE LET x == CHOOSE y \in T : TRUE
                      IN  f[x] + go(T \ {x})
    IN  go(DOMAIN f)

\* SUM(expr), expr given as the function row -> nullable value: the sum over
\* the rows whose expr is not NULL, NULL when there is none.
SqlSum(expr) ==
    LET nn == {r \in DOMAIN expr : expr[r] # NULL}
    IN  IF nn = {} THEN NULL ELSE Some(SumOver([r \in nn |-> Val(expr[r])]))

\* COUNT(expr): the rows whose expr is not NULL.
SqlCount(expr) == Cardinality({r \in DOMAIN expr : expr[r] # NULL})

\* left LEFT JOIN right ON on, on given as the set of matching pairs: every
\* left row, with NULL for the right side when nothing matches.
LeftJoin(left, right, on) ==
    UNION {LET m == {r \in right : <<l, r>> \in on}
           IN  IF m = {} THEN {[l |-> l, r |-> NULL]}
                         ELSE {[l |-> l, r |-> Some(r)] : r \in m} : l \in left}

\* left JOIN right ON on: the matching pairs only.
InnerJoin(left, right, on) ==
    UNION {{[l |-> l, r |-> Some(r)] : r \in {x \in right : <<l, x>> \in on}}
           : l \in left}

\* The orders a result set can come back in under ORDER BY key DESC, key
\* given as the function row -> number: every arrangement of the rows with a
\* non-increasing key (ties in engine order).
OrderByDesc(S, key) ==
    {s \in [1..Cardinality(S) -> S] :
        /\ \A i, j \in DOMAIN s : i # j => s[i] # s[j]
        /\ \A i, j \in DOMAIN s : i < j => key[s[i]] >= key[s[j]]}

\* ------------------------------------------------ session 1: the tables
CustomerName(i) == "customer" \o ToString(i)
DriverName(i) == "driver" \o ToString(i)
OrderTotals == {1000, 2550}
DeliveryDates == {"2024-03-01"}

\* A date column of the section 1 and 3 reports holds an ISO date, kept as
\* the number YYYYMMDD, which orders as the text does.  Each row has the
\* date its id gives it: customers sign up later and later, the drivers
\* were hired in the reverse order of their ids, two orders can fall on one
\* day.
SignupDate(i) == 20240104 + 100 * (i \div 2) + i
HireDate(i) == 20230601 - 100 * i
OrderDate(i) == 20240301 + (i \div 2)

CustomerRow(i) == [customer_id |-> i, customer_name |-> CustomerName(i),
                   signup_date |-> SignupDate(i)]
DriverRow(i) == [driver_id |-> i, driver_name |-> DriverName(i),
                 hire_date |-> HireDate(i)]

\* customers 1..n, n <= MaxCustomers
CustomerTables == {{CustomerRow(i) : i \in 1..n} : n \in 0..MaxCustomers}
DriverTables == {{DriverRow(i) : i \in 1..n} : n \in 0..MaxDrivers}

\* orders 1..n; customer_id may name a customer that does not exist
OrderTables ==
    UNION {{{[order_id |-> i, customer_id |-> f[i].c, order_total |-> f[i].t,
              order_date |-> OrderDate(i)]
               : i \in 1..n}
            : f \in [1..n -> [c : 1..MaxCustomers, t : OrderTotals]]}
           : n \in 0..MaxOrders}

\* deliveries 1..n, of any driver or none (driver_id is nullable, and may
\* name a driver that does not exist), each of an order of its own
DeliveryTables ==
    UNION {{{[delivery_id |-> i, order_id |-> i, driver_id |-> f[i],
              delivery_date |-> NULL] : i \in 1..n}
            : f \in [1..n -> {NULL} \cup {Some(k) : k \in 1..MaxDrivers}]}
           : n \in 0..MaxDeliveries}

NoOutput == [op |-> "none"]

\* nothing read from the terminal
NoInput == [choice |-> NULL, text |-> NULL]

\* no menu runs: the report functions are called directly
NoMenu == menu = "none" /\ typed = NoInput
Direct == UNCHANGED <<menu, typed>>

\* ------------------------------------------------ session 1: the reports
\* orders_per_customer: the rows of the query
\* ON c.customer_id = o.customer_id
CustomerOrdersOn ==
    {<<c, o>> \in customers \X orders : c.customer_id = o.customer_id}

CustomerOrdersJoin_Inner == InnerJoin(customers, orders, CustomerOrdersOn)

\* FROM customers c LEFT JOIN orders o ON c.customer_id = o.customer_id
CustomerOrdersJoin == LeftJoin(customers, orders, CustomerOrdersOn)

\* GROUP BY c.customer_id over the joined rows, one result row per group
OrdersPerCustomerRows ==
    LET joined == CustomerOrdersJoin
        Group(c) == {j \in joined : j.l.customer_id = c.customer_id}
        order_id(G) == [j \in G |-> IF j.r = NULL THEN NULL
                                    ELSE Some(Val(j.r).order_id)]
        order_total(G) == [j \in G |-> IF j.r = NULL THEN NULL
                                       ELSE Some(Val(j.r).order_total)]
    IN  {[customer_name |-> c.customer_name,
          number_of_orders |-> SqlCount(order_id(Group(c))),
          total_spent |-> Coalesce(SqlSum(order_total(Group(c))), 0)]
         : c \in {j.l : j \in joined}}

orders_per_customer ==
    /\ \E rows \in OrderByDesc(OrdersPerCustomerRows,
                               [r \in OrdersPerCustomerRows |-> r.total_spent]) :
          out' = [op |-> "orders_per_customer", rows |-> rows]
    /\ UNCHANGED <<tables, today>>

\* ON d.driver_id = del.driver_id
DriverDeliveriesOn ==
    {<<d, del>> \in drivers \X deliveries : del.driver_id = Some(d.driver_id)}

DriverDeliveriesJoin_Inner == InnerJoin(drivers, deliveries, DriverDeliveriesOn)

\* FROM drivers d LEFT JOIN deliveries del ON d.driver_id = del.driver_id
DriverDeliveriesJoin == LeftJoin(drivers, deliveries, DriverDeliveriesOn)

\* driver_workload / rank_drivers_by_deliveries: the rows of the (same) query
DriverDeliveryRows ==
    LET joined == DriverDeliveriesJoin
        Group(d) == {j \in joined : j.l.driver_id = d.driver_id}
        delivery_id(G) == [j \in G |-> IF j.r = NULL THEN NULL
                                       ELSE Some(Val(j.r).delivery_id)]
    IN  {[driver_name |-> d.driver_name,
          deliveries_completed |-> SqlCount(delivery_id(Group(d)))]
         : d \in {j.l : j \in joined}}

driver_workload ==
    /\ \E rows \in OrderByDesc(DriverDeliveryRows,
                  [r \in DriverDeliveryRows |-> r.deliveries_completed]) :
          out' = [op |-> "driver_workload", rows |-> rows]
    /\ UNCHANGED <<tables, today>>

\* the loop numbers the rows 1, 2, ... as it prints them
rank_drivers_by_deliveries ==
    /\ \E rows \in OrderByDesc(DriverDeliveryRows,
                  [r \in DriverDeliveryRows |-> r.deliveries_completed]) :
          out' = [op |-> "rank_drivers_by_deliveries",
                  rows |-> [i \in DOMAIN rows |->
                              [rank |-> i,
                               driver_name |-> rows[i].driver_name,
                               deliveries_completed |->
                                   rows[i].deliveries_completed]]]
    /\ UNCHANGED <<tables, today>>

\* f"{x:.2f}" of an amount held in pence (the pound sign before it is left
\* out of the lines)
Money(p) ==
    IF p < 0
    THEN "-" \o ToString((-p) \div 100) \o "."
             \o ToString(((-p) % 100) \div 10) \o ToString((-p) % 10)
    ELSE ToString(p \div 100) \o "." \o ToString((p % 100) \div 10)
                              \o ToString(p % 10)

LookupWhere_WrongColumn(order_id) == {o \in orders : o.customer_id = order_id}

\* WHERE o.order_id = ?
LookupWhere(order_id) == {o \in orders : o.order_id = order_id}

\* delivery_lookup_by_id: the rows of the query for one order id
DeliveryLookupRows(order_id) ==
    LET oc == InnerJoin(LookupWhere(order_id), customers,
                        {<<o, c>> \in orders \X customers :
                            o.customer_id = c.customer_id})
        withDel == LeftJoin(oc, deliveries,
                            {<<x, del>> \in oc \X deliveries :
                                x.l.order_id = del.order_id})
        withDrv == LeftJoin(withDel, drivers,
                            {<<j, d>> \in withDel \X drivers :
                                /\ j.r # NULL
                                /\ Val(j.r).driver_id = Some(d.driver_id)})
    IN  {<<j.l.l.l.order_id,
           Val(j.l.l.r).customer_name,
           j.l.l.l.order_total,
           IF j.l.r = NULL THEN NULL ELSE Val(j.l.r).delivery_date,
           IF j.r = NULL THEN NULL ELSE Some(Val(j.r).driver_name)>>
         : j \in withDrv}

OrElse_NoFallback(x, fallback) == IF x = NULL THEN "None" ELSE Val(x)

\* `x if x else fallback` on a nullable text column
OrElse(x, fallback) == IF x # NULL /\ Val(x) # "" THEN Val(x) ELSE fallback

DeliveryLookupLines(result) ==
    << "Order ID: " \o ToString(result[1]),
       "Customer: " \o result[2],
       "Order Total: " \o Money(result[3]),
       "Delivery Date: " \o OrElse(result[4], "Not delivered yet"),
       "Driver: " \o OrElse(result[5], "Not assigned") >>

NotFoundLine(order_id) == "Order " \o ToString(order_id) \o " not found."

\* cursor.fetchone(): None, or the first row in engine order
delivery_lookup_by_id(order_id) ==
    /\ LET rows == DeliveryLookupRows(order_id)
       IN  IF rows = {}
           THEN out' = [op |-> "delivery_lookup_by_id", order_id |-> order_id,
                        result |-> NULL,
                        lines |-> <<NotFoundLine(order_id)>>]
           ELSE \E result \in rows :
                   out' = [op |-> "delivery_lookup_by_id", order_id |-> order_id,
                           result |-> Some(result),
                           lines |-> DeliveryLookupLines(result)]
    /\ UNCHANGED <<tables, today>>

\* the order ids asked for: the menu passes int() of a string of digits
LookupIds == 1..(MaxOrders + 1)

\* ------------------------------------------------ session 1: specifications
NoSession2 ==
    /\ products = {}
    /\ order_items = {}
    /\ today = 0

\* customers and their orders
InitOrders ==
    /\ customers \in CustomerTables
    /\ orders \in OrderTables
    /\ drivers = {}
    /\ deliveries = {}
    /\ NoSession2
    /\ out = NoOutput
    /\ NoMenu

NextOrders == orders_per_customer /\ Direct

SpecOrders == InitOrders /\ [][NextOrders]_vars

\* drivers and their deliveries
InitDrivers ==
    /\ customers = {}
    /\ orders = {}
    /\ drivers \in DriverTables
    /\ deliveries \in DeliveryTables
    /\ NoSession2
    /\ out = NoOutput
    /\ NoMenu

NextDrivers ==
    \/ driver_workload /\ Direct
    \/ rank_drivers_by_deliveries /\ Direct

SpecDrivers == InitDrivers /\ [][NextDrivers]_vars

\* The deliveries of the lookup: at most one per order, each for an order
\* that exists.
DeliveriesOf(os) ==
    UNION {{{[delivery_id |-> i, order_id |-> i, driver_id |-> f[i].d,
              delivery_date |-> f[i].dt] : i \in S}
            : f \in [S -> [d : {NULL} \cup {Some(k) : k \in 1..MaxDrivers},
                           dt : {NULL} \cup {Some(x) : x \in DeliveryDates}]]}
           : S \in SUBSET {o.order_id : o \in os}}

\* the four tables of the lookup; the last customer and the last driver may
\* be missing from their tables while rows still name them
InitLookup ==
    /\ customers \in {t \in CustomerTables : Cardinality(t) >= MaxCustomers - 1}
    /\ orders \in {t \in OrderTables :
                      \A o \in t : o.order_total = CHOOSE x \in OrderTotals : TRUE}
    /\ drivers \in {t \in DriverTables : Cardinality(t) >= MaxDrivers - 1}
    /\ deliveries \in DeliveriesOf(orders)
    /\ NoSession2
    /\ out = NoOutput
    /\ NoMenu

NextLookup ==
    \E order_id \in LookupIds : delivery_lookup_by_id(order_id) /\ Direct

SpecLookup == InitLookup /\ [][NextLookup]_vars

\* ------------------------------------------------ session 1: claims
OrdersOf(c) == {o \in orders : o.customer_id = c.customer_id}

\* C1: orders_per_customer lists every customer, and a customer with no
\* orders appears with number_of_orders = 0 and total_spent = 0.
C1_ZeroOrderCustomersListed ==
    out.op = "orders_per_customer" =>
        /\ Len(out.rows) = Cardinality(customers)
        /\ \A c \in customers :
              \E i \in DOMAIN out.rows :
                 /\ out.rows[i].customer_name = c.customer_name
                 /\ OrdersOf(c) = {} =>
                       /\ out.rows[i].number_of_orders = 0
                       /\ out.rows[i].total_spent = 0

C1_Witness ==
    /\ out.op = "orders_per_customer"
    /\ \E c, d \in customers : OrdersOf(c) = {} /\ OrdersOf(d) # {}

DeliveriesBy(d) == {del \in deliveries : del.driver_id = Some(d.driver_id)}

\* C2: driver_workload and rank_drivers_by_deliveries list every driver that
\* has no delivery with count 0, and no driver with a larger count comes
\* after it.
C2_ZeroDeliveryDriversLast ==
    out.op \in {"driver_workload", "rank_drivers_by_deliveries"} =>
        /\ Len(out.rows) = Cardinality(drivers)
        /\ \A d \in drivers :
              DeliveriesBy(d) = {} =>
                 \E i \in DOMAIN out.rows :
                    /\ out.rows[i].driver_name = d.driver_name
                    /\ out.rows[i].deliveries_completed = 0
                    /\ \A j \in DOMAIN out.rows :
                          j > i => out.rows[j].deliveries_completed = 0

C2_Witness ==
    /\ out.op = "rank_drivers_by_deliveries"
    /\ \E c, d \in drivers : DeliveriesBy(c) = {} /\ DeliveriesBy(d) # {}

\* C3: a lookup of an order id that no order has prints the not-found line
\* and nothing else.
C3_LookupNotFound ==
    (/\ out.op = "delivery_lookup_by_id"
     /\ \A o \in orders : o.order_id # out.order_id) =>
        /\ out.result = NULL
        /\ out.lines = <<"Order " \o ToString(out.order_id) \o " not found.">>

C3_Witness ==
    /\ out.op = "delivery_lookup_by_id"
    /\ orders # {}
    /\ \A o \in orders : o.order_id # out.order_id

\* the order looked up, when it exists and its customer exists
LookedUp == {o \in orders : /\ o.order_id = out.order_id
                            /\ \E c \in customers :
                                  c.customer_id = o.customer_id}
DeliveryOfLookedUp == {del \in deliveries : del.order_id = out.order_id}

\* C4 as stated: an existing order with no delivery row, or whose delivery
\* has no driver, shows 'Not delivered yet' and 'Not assigned'.
C4_AsStated ==
    (/\ out.op = "delivery_lookup_by_id"
     /\ LookedUp # {}
     /\ \/ DeliveryOfLookedUp = {}
        \/ \E del \in DeliveryOfLookedUp : del.driver_id = NULL) =>
        /\ Len(out.lines) = 5
        /\ out.lines[4] = "Delivery Date: Not delivered yet"
        /\ out.lines[5] = "Driver: Not assigned"

\* C4, amended: an existing order is found; each of the two fields falls
\* back on its own: the date shows 'Not delivered yet' when there is no
\* delivery row or no delivery date and the stored date otherwise, the
\* driver shows 'Not assigned' when there is no delivery row, no driver id
\* or no such driver; neither is ever printed as None or blank.
C4_FallbackPerField ==
    (/\ out.op = "delivery_lookup_by_id"
     /\ LookedUp # {}) =>
        /\ Len(out.lines) = 5
        /\ out.lines[1] = "Order ID: " \o ToString(out.order_id)
        /\ \/ /\ \A del \in DeliveryOfLookedUp : del.delivery_date = NULL
              /\ out.lines[4] = "Delivery Date: Not delivered yet"
           \/ \E del \in DeliveryOfLookedUp :
                 /\ del.delivery_date # NULL
                 /\ out.lines[4] = "Delivery Date: " \o Val(del.delivery_date)
        /\ \/ /\ \A del \in DeliveryOfLookedUp :
                    \A d \in drivers : del.driver_id # Some(d.driver_id)
              /\ out.lines[5] = "Driver: Not assigned"
           \/ \E del \in DeliveryOfLookedUp : \E d \in drivers :
                 /\ del.driver_id = Some(d.driver_id)
                 /\ out.lines[5] = "Driver: " \o d.driver_name
        /\ out.lines[4] \notin {"Delivery Date: ", "Delivery Date: None"}
        /\ out.lines[5] \notin {"Driver: ", "Driver: None"}

C4_Witness ==
    /\ out.op = "delivery_lookup_by_id"
    /\ LookedUp # {}
    /\ \E del \in DeliveryOfLookedUp :
          del.driver_id = NULL /\ del.delivery_date # NULL
    /\ out.lines[5] = "Driver: Not assigned"

\* ================================================= session 2: base.py
\* ------------------------------------------------ task 15: the tables
Categories == {"bakery", "dairy", "fruit"}

\* products 1..n, each of one category
ProductTables ==
    UNION {{{[product_id |-> i, category |-> f[i]] : i \in 1..n}
            : f \in [1..n -> Categories]}
           : n \in 0..MaxProducts}

\* order_items: rows 1..n, the rows of an order before those of the next;
\* two rows may name the same order and product, and product_id may name a
\* product that does not exist
ItemTables ==
    UNION {{{[item_id |-> i, order_id |-> f[i].o, product_id |-> f[i].p]
               : i \in 1..n}
            : f \in {g \in [1..n -> [o : 1..MaxBaskets, p : 1..MaxProducts]] :
                        \A i, j \in 1..n : i < j => g[i].o <= g[j].o}}
           : n \in 0..MaxItems}

\* ------------------------------------------------ task 15: co-occurrence
\* df: order_items JOIN products, one row per line item
ItemCategories ==
    {[item_id |-> j.l.item_id, order_id |-> j.l.order_id,
      category |-> Val(j.r).category]
     : j \in InnerJoin(order_items, products,
                       {<<oi, p>> \in order_items \X products :
                           oi.product_id = p.product_id})}

\* every arrangement of the set S as a list
ListsOf(S) ==
    {s \in [1..Cardinality(S) -> S] :
        \A i, j \in DOMAIN s : i # j => s[i] # s[j]}

\* every arrangement of the categories of S's rows, one entry per row
OrderCategoryLists_NoSet ==
    LET ids == {r.order_id : r \in ItemCategories}
        Rows(o) == {r \in ItemCategories : r.order_id = o}
    IN  {[o \in ids |-> [i \in DOMAIN l[o] |-> l[o][i].category]]
         : l \in {f \in [ids -> UNION {ListsOf(Rows(o)) : o \in ids}] :
                     \A o \in ids : f[o] \in ListsOf(Rows(o))}}

\* df.groupby('order_id')['category'].apply(lambda x: list(set(x))): for
\* each order its distinct categories, as a list in the set's iteration order
OrderCategoryLists ==
    LET ids == {r.order_id : r \in ItemCategories}
        Cats(o) == {r.category : r \in {x \in ItemCategories : x.order_id = o}}
    IN  {f \in [ids -> UNION {ListsOf(Cats(o)) : o \in ids}] :
            \A o \in ids : f[o] \in ListsOf(Cats(o))}

\* cooccurrence.loc[a, b] += 1
Increment(M, a, b) == [M EXCEPT ![<<a, b>>] = @ + 1]

AddPair_OneWay(M, cat1, cat2) == Increment(M, cat1, cat2)

\* the body of `for cat1, cat2 in combinations(cats, 2)`
AddPair(M, cat1, cat2) == Increment(Increment(M, cat1, cat2), cat2, cat1)

AddDiagonal_FirstOnly(M, cats, i) ==
    IF cats = <<>> THEN M ELSE Increment(M, cats[1], cats[1])

\* for cat in cats: cooccurrence.loc[cat, cat] += 1      (from position i)
RECURSIVE AddDiagonal(_, _, _)
AddDiagonal(M, cats, i) ==
    IF i > Len(cats) THEN M
    ELSE AddDiagonal(Increment(M, cats[i], cats[i]), cats, i + 1)

\* for cat1, cat2 in combinations(cats, 2): ...   (from the pair (i, j), i < j)
RECURSIVE AddCombinations(_, _, _, _)
AddCombinations(M, cats, i, j) ==
    IF i >= Len(cats) THEN M
    ELSE IF j > Len(cats) THEN AddCombinations(M, cats, i + 1, i + 2)
    ELSE AddCombinations(AddPair(M, cats[i], cats[j]), cats, i, j + 1)

\* for _, row in order_categories.iterrows(): ...   over the orders in todo
RECURSIVE CountOrders(_, _, _)
CountOrders(M, lists, todo) ==
    IF todo = {} THEN M
    ELSE LET o == CHOOSE x \in todo : \A y \in todo : x <= y
             cats == lists[o]
         IN  CountOrders(AddCombinations(AddDiagonal(M, cats, 1), cats, 1, 2),
                         lists, todo \ {o})

\* the matrix task15 returns, given the list drawn for each order
Cooccurrence(lists) ==
    LET categories == {r.category : r \in ItemCategories}
    IN  CountOrders([c \in categories \X categories |-> 0], lists, DOMAIN lists)

task15_category_cooccurrence ==
    /\ \E lists \in OrderCategoryLists :
          out' = [op |-> "task15_category_cooccurrence",
                  cooccurrence |-> Cooccurrence(lists)]
    /\ UNCHANGED <<tables, today, menu, typed>>

NoSession1 ==
    /\ drivers = {}
    /\ today = 0

InitBaskets ==
    /\ products \in ProductTables
    /\ order_items \in ItemTables
    /\ customers = {}
    /\ orders = {}
    /\ deliveries = {}
    /\ NoSession1
    /\ out = NoOutput
    /\ NoMenu

NextBaskets == task15_category_cooccurrence

SpecBaskets == InitBaskets /\ [][NextBaskets]_vars

\* the categories seen, and the orders that hold at least one item of c
CategoriesSeen == {r.category : r \in ItemCategories}
OrdersWith(c) == {r.order_id : r \in {x \in ItemCategories : x.category = c}}

\* C5: the matrix of task15 is square over the categories seen, and
\* symmetric.
C5_CooccurrenceSymmetric ==
    out.op = "task15_category_cooccurrence" =>
        /\ DOMAIN out.cooccurrence = CategoriesSeen \X CategoriesSeen
        /\ \A a, b \in CategoriesSeen :
              out.cooccurrence[<<a, b>>] = out.cooccurrence[<<b, a>>]

C5_Witness ==
    /\ out.op = "task15_category_cooccurrence"
    /\ \E a, b \in CategoriesSeen : a # b /\ out.cooccurrence[<<a, b>>] > 0

\* C6: the diagonal entry of a category is the number of distinct orders
\* with at least one item of it, however many items of it an order has.
C6_DiagonalCountsOrders ==
    out.op = "task15_category_cooccurrence" =>
        \A c \in CategoriesSeen :
           out.cooccurrence[<<c, c>>] = Cardinality(OrdersWith(c))

C6_Witness ==
    /\ out.op = "task15_category_cooccurrence"
    /\ \E r, q \in ItemCategories :
          /\ r # q
          /\ r.order_id = q.order_id
          /\ r.category = q.category
          /\ out.cooccurrence[<<r.category, r.category>>] = 1

\* ------------------------------------------------ tasks 13, 16: the tables
\* delivery_status is free text: the three values the code names, and one
\* it does not
Statuses == {"delivered", "failed", "scheduled", "cancelled"}
Windows == {"morning", "evening"}

S2CustomerRow(i) ==
    [customer_id |-> i, first_name |-> "first" \o ToString(i),
     last_name |-> "last" \o ToString(i)]

S2CustomerTables == {{S2CustomerRow(i) : i \in 1..n} : n \in 0..MaxS2Customers}

\* The orders 1..n of the customers in custs (numbered customer by
\* customer), each with at most one delivery of a status in Statuses and a
\* window in wins, as <<orders, deliveries>>.
S2OrderDeliveryTables(custs, wins) ==
    UNION {{<<{[order_id |-> i, customer_id |-> f[i].c] : i \in 1..n},
              {[delivery_id |-> i, order_id |-> i,
                delivery_status |-> Val(f[i].d).s,
                delivery_window |-> Val(f[i].d).w]
                 : i \in {k \in 1..n : f[k].d # NULL}} >>
            : f \in {g \in [1..n -> [c : custs,
                                     d : {NULL} \cup
                                         {Some(x) : x \in [s : Statuses, w : wins]}]] :
                        \A i, j \in 1..n : i < j => g[i].c <= g[j].c}}
           : n \in 0..MaxS2Orders}

\* ------------------------------------------------ tasks 13, 16: pivots
\* SELECT key, delivery_status, COUNT( * ) ... GROUP BY key, delivery_status
\* over rows that carry key and delivery_status
GroupCounts(rows) ==
    {[key |-> k, status |-> st,
      count |-> Cardinality({r \in rows : r.key = k /\ r.delivery_status = st})]
     : <<k, st>> \in {<<r.key, r.delivery_status>> : r \in rows}}

Pivot_AggCount(df) ==
    [k \in {r.key : r \in df} |->
        [c \in {r.status : r \in df} |->
            LET cell == {r \in df : r.key = k /\ r.status = c}
            IN  IF cell = {} THEN NULL ELSE Some(Cardinality(cell))]]

\* df.pivot / df.pivot_table: one row per key, one column per status of df,
\* the (summed) count where df has the combination and NaN (NULL) elsewhere
Pivot(df) ==
    [k \in {r.key : r \in df} |->
        [c \in {r.status : r \in df} |->
            LET cell == {r \in df : r.key = k /\ r.status = c}
            IN  SqlSum([r \in cell |-> Some(r.count)])]]

\* .fillna(v) / fill_value=v
FillNa(t, v) == [k \in DOMAIN t |-> [c \in DOMAIN t[k] |-> Coalesce(t[k][c], v)]]

\* task13's query
WindowStatusCounts ==
    GroupCounts({[key |-> d.delivery_window,
                  delivery_status |-> d.delivery_status,
                  delivery_id |-> d.delivery_id] : d \in deliveries})

task13_delivery_performance_by_window ==
    /\ out' = [op |-> "task13_delivery_performance_by_window",
               pivot_df |-> FillNa(Pivot(WindowStatusCounts), 0)]
    /\ UNCHANGED <<tables, today, menu, typed>>

\* task16's query: customers JOIN orders JOIN deliveries
CustomerStatusCounts ==
    LET co == InnerJoin(customers, orders,
                        {<<c, o>> \in customers \X orders :
                            c.customer_id = o.customer_id})
        cod == InnerJoin(co, deliveries,
                         {<<j, d>> \in co \X deliveries :
                             Val(j.r).order_id = d.order_id})
    IN  GroupCounts({[key |-> <<j.l.l.customer_id, j.l.l.first_name,
                                j.l.l.last_name>>,
                      delivery_status |-> Val(j.r).delivery_status,
                      delivery_id |-> Val(j.r).delivery_id] : j \in cod})

\* the columns of a table
Columns(t) == UNION {DOMAIN t[k] : k \in DOMAIN t}

\* pivot_df['total'] = pivot_df.sum(axis=1)
WithTotal(t) ==
    [k \in DOMAIN t |->
        [c \in DOMAIN t[k] \cup {"total"} |->
            IF c = "total" THEN SumOver(t[k]) ELSE t[k][c]]]

\* n / d rounded to an integer, halves to the even neighbour (numpy's round)
RoundHalfEven(n, d) ==
    LET q == n \div d
        r == n % d
    IN  IF 2 * r < d THEN q
        ELSE IF 2 * r > d THEN q + 1
        ELSE IF q % 2 = 0 THEN q ELSE q + 1

Pct_NoTimes100(count, total) == RoundHalfEven(count * 100, total)

\* (count / total * 100).round(2), in hundredths of a percent
Pct(count, total) == RoundHalfEven(count * 10000, total)

PctColumns_NoScheduled == <<"delivered", "failed">>

\* for col in ['delivered', 'failed', 'scheduled']
PctColumns == <<"delivered", "failed", "scheduled">>

\* if col in pivot_df.columns: pivot_df[f'{col}_pct'] = ...
WithPct(t, col) ==
    IF col \notin Columns(t) THEN t
    ELSE [k \in DOMAIN t |->
            [c \in DOMAIN t[k] \cup {col \o "_pct"} |->
                IF c = col \o "_pct" THEN Pct(t[k][col], t[k]["total"])
                ELSE t[k][c]]]

\* the loop over PctColumns, from position i
RECURSIVE WithPcts(_, _)
WithPcts(t, i) ==
    IF i > Len(PctColumns) THEN t
    ELSE WithPcts(WithPct(t, PctColumns[i]), i + 1)

task16_delivery_performance_by_customer ==
    /\ out' = [op |-> "task16_delivery_performance_by_customer",
               pivot_df |->
                   WithPcts(WithTotal(FillNa(Pivot(CustomerStatusCounts), 0)), 1)]
    /\ UNCHANGED <<tables, today, menu, typed>>

\* Deliveries spread over the windows (one customer), or over the customers
\* (one window).
InitPivots ==
    /\ \/ /\ customers = {S2CustomerRow(1)}
          /\ \E od \in S2OrderDeliveryTables({1}, Windows) :
                orders = od[1] /\ deliveries = od[2]
       \/ /\ customers \in S2CustomerTables
          /\ \E od \in S2OrderDeliveryTables(1..MaxS2Customers, {"morning"}) :
                orders = od[1] /\ deliveries = od[2]
    /\ products = {}
    /\ order_items = {}
    /\ NoSession1
    /\ out = NoOutput
    /\ NoMenu

NextPivots ==
    \/ task13_delivery_performance_by_window
    \/ task16_delivery_performance_by_customer

SpecPivots == InitPivots /\ [][NextPivots]_vars

\* ------------------------------------------------ tasks 13, 16: claims
\* the deliveries the query of task16 reaches, and those of one customer
JoinedDeliveries ==
    {d \in deliveries :
        \E o \in orders : \E c \in customers :
           d.order_id = o.order_id /\ o.customer_id = c.customer_id}
DeliveriesOfCustomer(id) ==
    {d \in JoinedDeliveries :
        \E o \in orders : d.order_id = o.order_id /\ o.customer_id = id}
DeliveriesInWindow(w) == {d \in deliveries : d.delivery_window = w}
ObservedByCustomer == {d.delivery_status : d \in JoinedDeliveries}
ObservedByWindow == {d.delivery_status : d \in deliveries}
WithStatus(ds, st) == {d \in ds : d.delivery_status = st}
NamedStatuses == {"delivered", "failed", "scheduled"}
Abs(x) == IF x < 0 THEN 0 - x ELSE x

\* the columns of row that are percentages of the statuses in sts
PctsOf(row, sts) == {st \o "_pct" : st \in sts} \cap DOMAIN row
PctSum(row, sts) == SumOver([c \in PctsOf(row, sts) |-> row[c]])

\* C7 as stated: in every row of task16's pivot the percentages over all
\* the observed statuses add up to 100, to within half a hundredth a column.
C7_AsStated ==
    out.op = "task16_delivery_performance_by_customer" =>
        \A k \in DOMAIN out.pivot_df :
           LET row == out.pivot_df[k]
           IN  row["total"] > 0 =>
                  2 * Abs(PctSum(row, ObservedByCustomer) - 10000)
                     <= Cardinality(ObservedByCustomer)

\* C7, amended: the percentages of a row add up to 100 (to within half a
\* hundredth a column) when all the deliveries of that customer have one of
\* the statuses delivered, failed, scheduled.
C7_PercentagesSumTo100 ==
    out.op = "task16_delivery_performance_by_customer" =>
        \A k \in DOMAIN out.pivot_df :
           LET row == out.pivot_df[k]
           IN  (/\ row["total"] > 0
                /\ \A d \in DeliveriesOfCustomer(k[1]) :
                      d.delivery_status \in NamedStatuses) =>
                  2 * Abs(PctSum(row, ObservedByCustomer) - 10000)
                     <= Cardinality(PctsOf(row, ObservedByCustomer))

C7_Witness ==
    /\ out.op = "task16_delivery_performance_by_customer"
    /\ \E k \in DOMAIN out.pivot_df :
          /\ out.pivot_df[k]["total"] = 3
          /\ \A d \in DeliveriesOfCustomer(k[1]) :
                d.delivery_status \in NamedStatuses
          /\ PctSum(out.pivot_df[k], ObservedByCustomer) = 9999

\* C8 as stated: task16's pivot has, for every observed status, a count
\* column and a percentage column.
C8_AsStated ==
    out.op = "task16_delivery_performance_by_customer" =>
        \A k \in DOMAIN out.pivot_df : \A st \in ObservedByCustomer :
           /\ st \in DOMAIN out.pivot_df[k]
           /\ (st \o "_pct") \in DOMAIN out.pivot_df[k]

\* C8, amended: task16's pivot has a count column for every observed
\* status, and a percentage column (the count over the row total, times
\* 100, rounded to 2 decimals) for exactly the observed statuses among
\* delivered, failed, scheduled; any other status has no percentage column.
C8_PctColumnsOfNamedStatuses ==
    out.op = "task16_delivery_performance_by_customer" =>
        \A k \in DOMAIN out.pivot_df :
           LET row == out.pivot_df[k]
           IN  /\ DOMAIN row =
                     ObservedByCustomer \cup {"total"} \cup
                     {st \o "_pct" : st \in ObservedByCustomer \cap NamedStatuses}
               /\ \A st \in ObservedByCustomer \cap NamedStatuses :
                     2 * Abs(row[st \o "_pct"] * row["total"] - row[st] * 10000)
                        <= row["total"]

C8_Witness ==
    /\ out.op = "task16_delivery_performance_by_customer"
    /\ {"cancelled", "delivered", "scheduled"} \subseteq ObservedByCustomer
    /\ \E k \in DOMAIN out.pivot_df :
          /\ "cancelled" \in DOMAIN out.pivot_df[k]
          /\ "cancelled_pct" \notin DOMAIN out.pivot_df[k]
          /\ out.pivot_df[k]["scheduled_pct"] > 0

\* C9 as stated: both pivots hold the count of every (group-key, status),
\* 0 where there is none, and a total column with the deliveries of the key.
C9_AsStated ==
    /\ out.op = "task13_delivery_performance_by_window" =>
          \A w \in DOMAIN out.pivot_df :
             /\ \A st \in ObservedByWindow :
                   out.pivot_df[w][st] =
                      Cardinality(WithStatus(DeliveriesInWindow(w), st))
             /\ "total" \in DOMAIN out.pivot_df[w]
             /\ out.pivot_df[w]["total"] = Cardinality(DeliveriesInWindow(w))
    /\ out.op = "task16_delivery_performance_by_customer" =>
          \A k \in DOMAIN out.pivot_df :
             /\ \A st \in ObservedByCustomer :
                   out.pivot_df[k][st] =
                      Cardinality(WithStatus(DeliveriesOfCustomer(k[1]), st))
             /\ "total" \in DOMAIN out.pivot_df[k]
             /\ out.pivot_df[k]["total"] =
                   Cardinality(DeliveriesOfCustomer(k[1]))

\* C9, amended: both pivots have one row per group-key with a delivery and
\* hold the count of every (group-key, status), 0 where there is none; the
\* pivot of task16 has a total column with the number of deliveries of the
\* customer, the pivot of task13 has the status columns only, and no total.
C9_PivotCountsAndTotal ==
    /\ out.op = "task13_delivery_performance_by_window" =>
          /\ DOMAIN out.pivot_df = {d.delivery_window : d \in deliveries}
          /\ \A w \in DOMAIN out.pivot_df :
                /\ DOMAIN out.pivot_df[w] = ObservedByWindow
                /\ \A st \in ObservedByWindow :
                      out.pivot_df[w][st] =
                         Cardinality(WithStatus(DeliveriesInWindow(w), st))
    /\ out.op = "task16_delivery_performance_by_customer" =>
          /\ {k[1] : k \in DOMAIN out.pivot_df} =
                {c.customer_id : c \in {x \in customers :
                    DeliveriesOfCustomer(x.customer_id) # {}}}
          /\ \A k \in DOMAIN out.pivot_df :
                /\ \A st \in ObservedByCustomer :
                      out.pivot_df[k][st] =
                         Cardinality(WithStatus(DeliveriesOfCustomer(k[1]), st))
                /\ "total" \in DOMAIN out.pivot_df[k]
                /\ out.pivot_df[k]["total"] =
                      Cardinality(DeliveriesOfCustomer(k[1]))

C9_Witness ==
    /\ out.op = "task13_delivery_performance_by_window"
    /\ \E w, v \in DOMAIN out.pivot_df : \E st \in ObservedByWindow :
          /\ out.pivot_df[w][st] = 0
          /\ out.pivot_df[v][st] = 2
          /\ "total" \notin DOMAIN out.pivot_df[w]

\* ------------------------------------------------ task 17: the tables
\* order_date and today are day numbers; DATE('now', '-30 days') is
\* today - WindowDays
WindowDays == 30
ForecastDays == 7
OrderDays == {10, 35, 40}
Todays == {40, 66, 100}
Amounts == {1000, 2000, 3000}

\* orders 1..n, each of a day and an amount
DatedOrderTables ==
    UNION {{{[order_id |-> i, customer_id |-> 1, order_date |-> f[i].d,
              total_amount |-> f[i].a] : i \in 1..n}
            : f \in [1..n -> [d : OrderDays, a : Amounts]]}
           : n \in 0..MaxS2Orders}

\* ------------------------------------------------ task 17: forecast
\* SELECT DATE(order_date) as date, SUM(total_amount) as daily_revenue
\* FROM os GROUP BY DATE(order_date) ORDER BY date
DailyRevenue(os) ==
    LET days == {o.order_date : o \in os}
        row(d) == [date |-> d,
                   daily_revenue |->
                      Val(SqlSum([o \in {x \in os : x.order_date = d} |->
                                     Some(o.total_amount)]))]
    IN  CHOOSE s \in [1..Cardinality(days) -> {row(d) : d \in days}] :
           \A i, j \in DOMAIN s : i < j => s[i].date < s[j].date

\* WHERE order_date >= DATE('now', '-30 days')
RecentOrders == {o \in orders : o.order_date >= today - WindowDays}

ForecastFrame_FallbackWhenShort ==
    IF Len(DailyRevenue(RecentOrders)) < 2 THEN DailyRevenue(orders)
    ELSE DailyRevenue(RecentOrders)

\* the frame the forecast is made from: the recent days, or, when there is
\* none, all the days
ForecastFrame ==
    IF Len(DailyRevenue(RecentOrders)) = 0 THEN DailyRevenue(orders)
    ELSE DailyRevenue(RecentOrders)

Mean_OffByOne(df) ==
    [num |-> SumOver([i \in DOMAIN df |-> df[i].daily_revenue]),
     den |-> Len(df) - 1]

\* df['daily_revenue'].mean(), as the fraction num / den
Mean(df) ==
    [num |-> SumOver([i \in DOMAIN df |-> df[i].daily_revenue]),
     den |-> Len(df)]

NotEnoughData_OnlyEmpty(df) == Len(df) < 1

\* if len(df) < 2
NotEnoughData(df) == Len(df) < 2

\* avg_daily_revenue * 7
Times(q, n) == [num |-> q.num * n, den |-> q.den]

\* f"{q:.2f}" of a fraction of pence
MoneyOf(q) == Money(RoundHalfEven(q.num, q.den))

\* now is the day DATE('now') stood for when the queries ran
task17_forecast_revenue ==
    /\ LET df == ForecastFrame
       IN  IF NotEnoughData(df)
           THEN out' = [op |-> "task17_forecast_revenue", now |-> today,
                        lines |-> <<"Not enough data to forecast.">>,
                        returned |-> NULL]
           ELSE LET avg_daily_revenue == Mean(df)
                    forecast_7_days == Times(avg_daily_revenue, ForecastDays)
                IN  out' = [op |-> "task17_forecast_revenue", now |-> today,
                            lines |->
                               <<"Historical daily average: "
                                    \o MoneyOf(avg_daily_revenue),
                                 "Forecast for next 7 days: "
                                    \o MoneyOf(forecast_7_days)>>,
                            returned |-> Some([df |-> df,
                                               forecast_7_days |->
                                                   forecast_7_days])]
    /\ UNCHANGED <<tables, today, menu, typed>>

InitForecast ==
    /\ orders \in DatedOrderTables
    /\ today \in Todays
    /\ customers = {}
    /\ deliveries = {}
    /\ drivers = {}
    /\ products = {}
    /\ order_items = {}
    /\ out = NoOutput
    /\ NoMenu

NextForecast == task17_forecast_revenue

SpecForecast == InitForecast /\ [][NextForecast]_vars

\* ------------------------------------------------ task 17: claims
\* the orders of the selected series: those of the trailing window, or all
\* of them when the window holds none
SelectedOrders ==
    LET recent == {o \in orders : o.order_date + WindowDays >= today}
    IN  IF recent = {} THEN orders ELSE recent
SelectedDays == {o.order_date : o \in SelectedOrders}
OrdersOn(d) == {o \in SelectedOrders : o.order_date = d}
TotalAmount(os) == SumOver([o \in os |-> o.total_amount])

\* C10: with 2 or more days in the selected series, the forecast is
\* (sum of the daily revenues / number of days) * 7, each daily revenue
\* being the sum of the amounts of the orders of the day.
C10_ForecastIsMeanTimes7 ==
    (/\ out.op = "task17_forecast_revenue"
     /\ Cardinality(SelectedDays) >= 2) =>
        /\ out.returned # NULL
        /\ LET df == Val(out.returned).df
               f == Val(out.returned).forecast_7_days
           IN  /\ {df[i].date : i \in DOMAIN df} = SelectedDays
               /\ \A i \in DOMAIN df :
                     df[i].daily_revenue = TotalAmount(OrdersOn(df[i].date))
               /\ f.den > 0
               /\ f.num * Cardinality(SelectedDays) =
                     7 * TotalAmount(SelectedOrders) * f.den

\* two orders on one day: daily revenues [10, 30] give 20 * 7 = 140
C10_Witness ==
    /\ out.op = "task17_forecast_revenue"
    /\ \E a, b \in orders : a # b /\ a.order_date = b.order_date
    /\ {TotalAmount(OrdersOn(d)) : d \in SelectedDays} = {1000, 3000}
    /\ out.returned # NULL
    /\ out.lines[2] = "Forecast for next 7 days: 140.00"

\* C11: when the selected series has fewer than 2 distinct days, the
\* forecast prints the not-enough-data line and nothing else, and returns
\* None.
C11_InsufficientData ==
    (/\ out.op = "task17_forecast_revenue"
     /\ Cardinality(SelectedDays) < 2) =>
        /\ out.returned = NULL
        /\ out.lines = <<"Not enough data to forecast.">>

\* a single day of data, holding two orders
C11_Witness ==
    /\ out.op = "task17_forecast_revenue"
    /\ Cardinality(SelectedDays) = 1
    /\ Cardinality(SelectedOrders) = 2
    /\ out.returned = NULL

\* the days and the orders of the trailing window, and of the whole history
WindowOrders == {o \in orders : o.order_date + WindowDays >= today}
WindowDaysSeen == {o.order_date : o \in WindowOrders}
HistoryDays == {o.order_date : o \in orders}

\* C12: the frame of a forecast is the per-day totals of the trailing
\* window when the window holds an order, and of the whole history only
\* when it holds none; a window of one day gives no forecast, whatever the
\* history holds.
C12_TwoTierWindow ==
    out.op = "task17_forecast_revenue" =>
        /\ Cardinality(WindowDaysSeen) = 1 => out.returned = NULL
        /\ out.returned # NULL =>
              LET df == Val(out.returned).df
                  base == IF WindowOrders # {} THEN WindowOrders ELSE orders
              IN  /\ {df[i].date : i \in DOMAIN df} =
                        {o.order_date : o \in base}
                  /\ \A i \in DOMAIN df :
                        df[i].daily_revenue =
                           TotalAmount({o \in base :
                                           o.order_date = df[i].date})

\* one day in the window, three in the history: no forecast
C12_Witness ==
    /\ out.op = "task17_forecast_revenue"
    /\ Cardinality(WindowDaysSeen) = 1
    /\ Cardinality(HistoryDays) = 3
    /\ out.returned = NULL

\* the window is empty and the history is used
C12_WitnessFallback ==
    /\ out.op = "task17_forecast_revenue"
    /\ orders # {}
    /\ WindowOrders = {}
    /\ out.returned # NULL

\* ================================================= session 1: section 4
\* ------------------------------------------------ top_customers_by_spend
TopCustomersJoin_NoOn == InnerJoin(customers, orders, customers \X orders)

\* FROM customers c JOIN orders o ON c.customer_id = o.customer_id
TopCustomersJoin == InnerJoin(customers, orders, CustomerOrdersOn)

\* GROUP BY c.customer_id over the joined rows, one result row per group
TopCustomerRows ==
    LET joined == TopCustomersJoin
        Group(c) == {j \in joined : j.l.customer_id = c.customer_id}
        order_total(G) == [j \in G |-> Some(Val(j.r).order_total)]
    IN  {[customer_name |-> c.customer_name,
          total_spend |-> Val(SqlSum(order_total(Group(c))))]
         : c \in {j.l : j \in joined}}

Limit_OneMore(rows, n) ==
    SubSeq(rows, 1, IF n + 1 < Len(rows) THEN n + 1 ELSE Len(rows))

\* LIMIT ? with a count that is not negative: the first n rows
Limit(rows, n) == SubSeq(rows, 1, IF n < Len(rows) THEN n ELSE Len(rows))

\* the limits asked for; the menu passes none, which is the default 5
Limits == {0, 1, 2, 5}

\* the loop numbers the rows 1, 2, ... as it prints them
top_customers_by_spend(limit) ==
    /\ \E sorted \in OrderByDesc(TopCustomerRows,
                                 [r \in TopCustomerRows |-> r.total_spend]) :
          LET rows == Limit(sorted, limit)
          IN  out' = [op |-> "top_customers_by_spend", limit |-> limit,
                      rows |-> [i \in DOMAIN rows |->
                                  [rank |-> i,
                                   customer_name |-> rows[i].customer_name,
                                   total_spend |-> rows[i].total_spend]],
                      lines |-> <<"Top " \o ToString(limit)
                                      \o " Customers by Spend">>
                                \o [i \in DOMAIN rows |->
                                      ToString(i) \o ". "
                                         \o rows[i].customer_name \o " "
                                         \o Money(rows[i].total_spend)]]
    /\ UNCHANGED <<tables, today>>

\* ------------------------------------------------ high_value_orders
HighValueWhere_AtLeast(threshold) ==
    {o \in orders : o.order_total >= threshold}

\* WHERE o.order_total > ?
HighValueWhere(threshold) == {o \in orders : o.order_total > threshold}

\* the rows of the query (order_date, printed as it is stored, is left out,
\* as are the rule and the column heads among the lines)
HighValueRows(threshold) ==
    LET oc == InnerJoin(HighValueWhere(threshold), customers,
                        {<<o, c>> \in orders \X customers :
                            o.customer_id = c.customer_id})
    IN  {[order_id |-> j.l.order_id,
          customer_name |-> Val(j.r).customer_name,
          order_total |-> j.l.order_total] : j \in oc}

NoOrdersLine == "No orders found above this threshold."

\* count counts the rows printed; the last line is printed when it is 0
high_value_orders(threshold) ==
    /\ \E rows \in OrderByDesc(HighValueRows(threshold),
                    [r \in HighValueRows(threshold) |-> r.order_total]) :
          LET count == Len(rows)
          IN  out' = [op |-> "high_value_orders", threshold |-> threshold,
                      rows |-> rows,
                      lines |-> <<"Orders above " \o Money(threshold)>>
                                \o [i \in DOMAIN rows |->
                                      ToString(rows[i].order_id) \o " "
                                         \o rows[i].customer_name \o " "
                                         \o Money(rows[i].order_total)]
                                \o (IF count = 0 THEN <<NoOrdersLine>>
                                                 ELSE <<>>)]
    /\ UNCHANGED <<tables, today>>

\* the thresholds asked for, in pence: below, at and above the order totals
Thresholds == {500, 1000, 2550, 100000000}

\* ------------------------------------------------ section 4: specification
\* the customers and their orders, or the drivers and their deliveries
InitRankings == InitOrders \/ InitDrivers

NextRankings ==
    \/ \E limit \in Limits : top_customers_by_spend(limit) /\ Direct
    \/ rank_drivers_by_deliveries /\ Direct
    \/ \E threshold \in Thresholds : high_value_orders(threshold) /\ Direct

SpecRankings == InitRankings /\ [][NextRankings]_vars

\* ------------------------------------------------ section 4: claims
\* the orders whose customer exists
OrdersWithCustomer ==
    {o \in orders : \E c \in customers : c.customer_id = o.customer_id}

\* C13: high_value_orders lists exactly the orders of existing customers
\* whose total is strictly above the threshold, each once, the totals never
\* increasing down the list; the no-orders line is printed exactly when no
\* order qualifies.
C13_HighValueOrders ==
    out.op = "high_value_orders" =>
        LET qualifying == {o \in OrdersWithCustomer :
                              o.order_total > out.threshold}
        IN  /\ {out.rows[i].order_id : i \in DOMAIN out.rows} =
                  {o.order_id : o \in qualifying}
            /\ Len(out.rows) = Cardinality(qualifying)
            /\ \A i \in DOMAIN out.rows :
                  \E o \in qualifying :
                     /\ o.order_id = out.rows[i].order_id
                     /\ o.order_total = out.rows[i].order_total
            /\ \A i, j \in DOMAIN out.rows :
                  i < j => out.rows[i].order_total >= out.rows[j].order_total
            /\ qualifying = {} <=> out.lines[Len(out.lines)] = NoOrdersLine

\* a threshold equal to one order's total and below another's
C13_Witness ==
    /\ out.op = "high_value_orders"
    /\ \E o \in OrdersWithCustomer : o.order_total = out.threshold
    /\ Len(out.rows) = 1

\* a threshold of a million pounds over orders of at most 25.50
C13_WitnessNone ==
    /\ out.op = "high_value_orders"
    /\ out.threshold = 100000000
    /\ OrdersWithCustomer # {}
    /\ out.lines = <<"Orders above 1000000.00", NoOrdersLine>>

\* the row of customer c in the output, if any
ListedAs(c) == {i \in DOMAIN out.rows :
                   out.rows[i].customer_name = c.customer_name}
SpendOf(c) == SumOver([o \in OrdersOf(c) |-> o.order_total])

\* C16 as stated: with a limit of at least the number of customers,
\* top_customers_by_spend lists every customer, one with no orders with a
\* spend of zero.
C16_AsStated ==
    (/\ out.op = "top_customers_by_spend"
     /\ out.limit >= Cardinality(customers)) =>
        \A c \in customers :
           /\ ListedAs(c) # {}
           /\ OrdersOf(c) = {} =>
                 \A i \in ListedAs(c) : out.rows[i].total_spend = 0

\* C16, amended: with a limit of at least the number of customers,
\* top_customers_by_spend lists exactly the customers that have an order,
\* each once with the sum of its orders; a customer with no orders is left
\* out.
C16_OnlyCustomersWithOrders ==
    (/\ out.op = "top_customers_by_spend"
     /\ out.limit >= Cardinality(customers)) =>
        /\ \A c \in customers :
              /\ OrdersOf(c) = {} => ListedAs(c) = {}
              /\ OrdersOf(c) # {} =>
                    /\ Cardinality(ListedAs(c)) = 1
                    /\ \A i \in ListedAs(c) :
                          out.rows[i].total_spend = SpendOf(c)
        /\ Len(out.rows) = Cardinality({c \in customers : OrdersOf(c) # {}})

\* one customer with orders, one without, and room for both
C16_Witness ==
    /\ out.op = "top_customers_by_spend"
    /\ out.limit >= Cardinality(customers)
    /\ \E c, d \in customers : OrdersOf(c) = {} /\ OrdersOf(d) # {}
    /\ Len(out.rows) = 1

\* C17: top_customers_by_spend and rank_drivers_by_deliveries number their
\* rows 1, 2, ..., k (k at most the limit of the top-N report), the ranking
\* key never increases down the list, every row is a group with its own
\* key, and no group left out has a key above that of a listed group.
C17_RanksAndOrder ==
    /\ out.op \in {"top_customers_by_spend", "rank_drivers_by_deliveries"} =>
          \A i \in DOMAIN out.rows : out.rows[i].rank = i
    /\ out.op = "top_customers_by_spend" =>
          /\ Len(out.rows) <= out.limit
          /\ \A i, j \in DOMAIN out.rows :
                i < j => out.rows[i].total_spend >= out.rows[j].total_spend
          /\ \A i \in DOMAIN out.rows :
                \E c \in customers :
                   /\ OrdersOf(c) # {}
                   /\ ListedAs(c) = {i}
                   /\ out.rows[i].total_spend = SpendOf(c)
          /\ \A c \in customers :
                (OrdersOf(c) # {} /\ ListedAs(c) = {}) =>
                   /\ Len(out.rows) = out.limit
                   /\ \A i \in DOMAIN out.rows :
                         SpendOf(c) <= out.rows[i].total_spend
    /\ out.op = "rank_drivers_by_deliveries" =>
          /\ \A i, j \in DOMAIN out.rows :
                i < j => out.rows[i].deliveries_completed
                            >= out.rows[j].deliveries_completed
          /\ Len(out.rows) = Cardinality(drivers)
          /\ \A d \in drivers :
                \E i \in DOMAIN out.rows :
                   /\ out.rows[i].driver_name = d.driver_name
                   /\ out.rows[i].deliveries_completed =
                         Cardinality(DeliveriesBy(d))

\* the limit cuts the list: a customer with orders is left out, and spent
\* less than the one listed
C17_Witness ==
    /\ out.op = "top_customers_by_spend"
    /\ out.limit = 1
    /\ Len(out.rows) = 1
    /\ \E c \in customers :
          /\ OrdersOf(c) # {}
          /\ ListedAs(c) = {}
          /\ SpendOf(c) < out.rows[1].total_spend

\* two drivers ranked 1 and 2, the first with more deliveries
C17_WitnessDrivers ==
    /\ out.op = "rank_drivers_by_deliveries"
    /\ Len(out.rows) = 2
    /\ out.rows[1].deliveries_completed > out.rows[2].deliveries_completed

\* ================================================= session 1: sections 1, 3
SelectOnly_Deletes ==
    /\ orders' = {}
    /\ UNCHANGED <<customers, deliveries, drivers, products, order_items>>

\* every statement of a report is a SELECT: no table changes
SelectOnly == UNCHANGED tables

\* str() of a date column, of a month (strftime('%Y-%m')), of None
TwoDigits(n) == IF n < 10 THEN "0" \o ToString(n) ELSE ToString(n)
DateText(d) ==
    ToString(d \div 10000) \o "-" \o TwoDigits((d \div 100) % 100)
                           \o "-" \o TwoDigits(d % 100)
MonthOf(d) == d \div 100
MonthText(m) == ToString(m \div 100) \o "-" \o TwoDigits(m % 100)
DateOrNone(x) == IF x = NULL THEN "None" ELSE DateText(Val(x))
TextOrNone(x) == IF x = NULL THEN "None" ELSE Val(x)

\* MIN(expr) and MAX(expr) over a set of numbers: NULL over no rows
SqlMin(S) == IF S = {} THEN NULL ELSE Some(CHOOSE x \in S : \A y \in S : x <= y)
SqlMax(S) == IF S = {} THEN NULL ELSE Some(CHOOSE x \in S : \A y \in S : x >= y)

\* ORDER BY key (ascending), key given as the function row -> number
OrderByAsc(S, key) ==
    {s \in [1..Cardinality(S) -> S] :
        /\ \A i, j \in DOMAIN s : i # j => s[i] # s[j]
        /\ \A i, j \in DOMAIN s : i < j => key[s[i]] <= key[s[j]]}

total_customers ==
    /\ out' = [op |-> "total_customers",
               lines |-> <<"Total customers: "
                              \o ToString(Cardinality(customers))>>,
               raised |-> NULL]
    /\ SelectOnly /\ UNCHANGED today

customer_signup_range ==
    /\ LET dates == {c.signup_date : c \in customers}
       IN  out' = [op |-> "customer_signup_range",
                   lines |-> <<"Earliest signup: " \o DateOrNone(SqlMin(dates)),
                               "Latest signup: " \o DateOrNone(SqlMax(dates))>>,
                   raised |-> NULL]
    /\ SelectOnly /\ UNCHANGED today

\* AVG(order_total), as the fraction num / den: NULL over no rows
SqlAvg(S, f) ==
    IF S = {} THEN NULL
    ELSE Some([num |-> SumOver([r \in S |-> f[r]]), den |-> Cardinality(S)])

\* The four prints of order_summary_stats.  f"{x:.2f}" of None raises
\* TypeError: over an empty orders table the first line is printed and the
\* second print raises.
order_summary_stats ==
    /\ LET total == [o \in orders |-> o.order_total]
           result == <<Cardinality(orders),
                       SqlAvg(orders, total),
                       SqlMax({o.order_total : o \in orders}),
                       SqlMin({o.order_total : o \in orders})>>
           first == "Total orders: " \o ToString(result[1])
       IN  IF result[2] = NULL
           THEN out' = [op |-> "order_summary_stats",
                        lines |-> <<first>>,
                        raised |-> Some("TypeError")]
           ELSE out' = [op |-> "order_summary_stats",
                        lines |->
                           <<first,
                             "Average order value: "
                                \o Money(RoundHalfEven(Val(result[2]).num,
                                                       Val(result[2]).den)),
                             "Highest order: " \o Money(Val(result[3])),
                             "Lowest order: " \o Money(Val(result[4]))>>,
                        raised |-> NULL]
    /\ SelectOnly /\ UNCHANGED today

driver_summary ==
    /\ \E rows \in OrderByAsc(drivers, [d \in drivers |-> d.hire_date]) :
          out' = [op |-> "driver_summary",
                  lines |-> <<"Total drivers: "
                                 \o ToString(Cardinality(drivers)),
                              "Driver Hire Dates:">>
                            \o [i \in DOMAIN rows |->
                                  rows[i].driver_name \o " "
                                     \o DateText(rows[i].hire_date)],
                  raised |-> NULL]
    /\ SelectOnly /\ UNCHANGED today

\* GROUP BY order_date ORDER BY order_date
orders_per_date ==
    /\ LET groups == {[order_date |-> d,
                       order_count |->
                          Cardinality({o \in orders : o.order_date = d})]
                      : d \in {o.order_date : o \in orders}}
       IN  \E rows \in OrderByAsc(groups, [g \in groups |-> g.order_date]) :
              out' = [op |-> "orders_per_date",
                      lines |-> [i \in DOMAIN rows |->
                                   DateText(rows[i].order_date) \o " "
                                      \o ToString(rows[i].order_count)],
                      raised |-> NULL]
    /\ SelectOnly /\ UNCHANGED today

\* GROUP BY delivery_date ORDER BY delivery_date: the deliveries with no
\* date are one group, which comes first (DeliveryDates holds one date, so
\* no two dates are compared)
deliveries_per_date ==
    /\ LET groups == {[delivery_date |-> d,
                       delivery_count |->
                          Cardinality({x \in deliveries : x.delivery_date = d})]
                      : d \in {x.delivery_date : x \in deliveries}}
           key == [g \in groups |-> IF g.delivery_date = NULL THEN 0 ELSE 1]
       IN  \E rows \in OrderByAsc(groups, key) :
              out' = [op |-> "deliveries_per_date",
                      lines |-> [i \in DOMAIN rows |->
                                   TextOrNone(rows[i].delivery_date) \o " "
                                      \o ToString(rows[i].delivery_count)],
                      raised |-> NULL]
    /\ SelectOnly /\ UNCHANGED today

\* GROUP BY strftime('%Y-%m', signup_date) ORDER BY it
customer_signups_per_month ==
    /\ LET groups == {[signup_month |-> m,
                       signup_count |->
                          Cardinality({c \in customers :
                                          MonthOf(c.signup_date) = m})]
                      : m \in {MonthOf(c.signup_date) : c \in customers}}
       IN  \E rows \in OrderByAsc(groups, [g \in groups |-> g.signup_month]) :
              out' = [op |-> "customer_signups_per_month",
                      lines |-> [i \in DOMAIN rows |->
                                   MonthText(rows[i].signup_month) \o " "
                                      \o ToString(rows[i].signup_count)],
                      raised |-> NULL]
    /\ SelectOnly /\ UNCHANGED today

\* ================================================= session 1: the menus
\* ------------------------------------------------ what the user types
\* A line typed at a prompt is a sequence of characters.  "sup2" stands for
\* the one character SUPERSCRIPT TWO: str.isdigit() holds of it, and int()
\* and float() refuse it.
AsciiDigits == <<"0", "1", "2", "3", "4", "5", "6", "7", "8", "9">>
OtherDigits == {"sup2"}
IsAsciiDigit(c) == \E i \in DOMAIN AsciiDigits : AsciiDigits[i] = c
DigitValue(c) == (CHOOSE i \in DOMAIN AsciiDigits : AsciiDigits[i] = c) - 1

\* str.strip(): the line without the blanks at its ends
RECURSIVE Strip(_)
Strip(s) ==
    IF s = <<>> THEN s
    ELSE IF Head(s) = " " THEN Strip(Tail(s))
    ELSE IF s[Len(s)] = " " THEN Strip(SubSeq(s, 1, Len(s) - 1))
    ELSE s

\* str.isdigit(): at least one character, every one a digit
IsDigit(s) ==
    /\ s # <<>>
    /\ \A i \in DOMAIN s : IsAsciiDigit(s[i]) \/ s[i] \in OtherDigits

\* the text after an optional sign
Unsigned(s) == IF s # <<>> /\ Head(s) \in {"-", "+"} THEN Tail(s) ELSE s
SignOf(s) == IF s # <<>> /\ Head(s) = "-" THEN -1 ELSE 1

RECURSIVE NatOf(_)
NatOf(u) ==
    IF u = <<>> THEN 0
    ELSE 10 * NatOf(SubSeq(u, 1, Len(u) - 1)) + DigitValue(u[Len(u)])

\* int(s) returns (it raises ValueError otherwise): blanks around an
\* optional sign and at least one decimal digit
IntParses(s) ==
    LET u == Unsigned(Strip(s))
    IN  u # <<>> /\ \A i \in DOMAIN u : IsAsciiDigit(u[i])
IntOf(s) == SignOf(Strip(s)) * NatOf(Unsigned(Strip(s)))

\* float(s) returns, for a text of these characters: blanks around an
\* optional sign and digits with at most one point among them
FloatParses(s) ==
    LET u == Unsigned(Strip(s))
    IN  /\ \E i \in DOMAIN u : IsAsciiDigit(u[i])
        /\ \A i \in DOMAIN u : IsAsciiDigit(u[i]) \/ u[i] = "."
        /\ Cardinality({i \in DOMAIN u : u[i] = "."}) <= 1

\* float(s) in pence, for a text with at most two digits after the point
FloatPence(s) ==
    LET u == Unsigned(Strip(s))
        dot == IF \E i \in DOMAIN u : u[i] = "."
               THEN CHOOSE i \in DOMAIN u : u[i] = "." ELSE Len(u) + 1
        after == IF dot < Len(u) THEN SubSeq(u, dot + 1, Len(u)) ELSE <<>>
        frac == SubSeq(after \o <<"0", "0">>, 1, 2)
    IN  SignOf(Strip(s)) * (100 * NatOf(SubSeq(u, 1, dot - 1)) + NatOf(frac))

\* the choices typed at a menu ("x": one that no menu knows), the order ids
\* and the thresholds typed at the second prompt
Choices == {"0", "1", "2", "3", "4", "x"}
OrderIdInputs ==
    {<<"1">>, <<" ", "2", " ">>, <<"3">>, <<"-", "1">>, <<"x">>, <<>>,
     <<"sup2">>}
ThresholdInputs ==
    {<<"1", "0">>, <<"2", "5", ".", "5">>, <<"5">>, <<"x">>, <<>>}

\* ------------------------------------------------ the menu loops
Read(choice) == typed' = [choice |-> Some(choice), text |-> NULL]
ReadTwo(choice, text) == typed' = [choice |-> Some(choice), text |-> Some(text)]

\* what a turn of a menu loop prints itself, and whether it raised
MenuOut(name, lines, raised) ==
    [op |-> name, lines |-> lines, raised |-> raised]

InvalidOption == "Invalid option. Please try again."
InvalidOrderId == "Please enter a valid integer order ID."
InvalidThreshold == "Please enter a valid numerical value."

\* the loop goes round: the same menu prompts again
Stay == menu' = menu
\* an exception that no menu catches ends main_menu and the process
Uncaught == menu' = "raised"

\* top_customers_by_spend(conn): limit=5
DefaultLimit == 5

\* one turn of main_menu's loop
main_menu(choice) ==
    /\ menu = "main_menu"
    /\ Read(choice)
    /\ CASE choice \in {"1", "2", "3", "4"} ->
              /\ menu' = "section_" \o choice \o "_menu"
              /\ out' = MenuOut("main_menu", <<>>, NULL)
         [] choice = "0" ->
              /\ menu' = "exited"
              /\ out' = MenuOut("main_menu", <<"Exiting dashboard.">>, NULL)
         [] OTHER ->
              /\ Stay
              /\ out' = MenuOut("main_menu", <<InvalidOption>>, NULL)
    /\ SelectOnly /\ UNCHANGED today

\* one turn of section_1_menu's loop
section_1_menu(choice) ==
    /\ menu = "section_1_menu"
    /\ Read(choice)
    /\ CASE choice = "1" -> total_customers /\ Stay
         [] choice = "2" -> customer_signup_range /\ Stay
         [] choice = "3" ->
              /\ order_summary_stats
              /\ IF out'.raised = NULL THEN Stay ELSE Uncaught
         [] choice = "4" -> driver_summary /\ Stay
         [] choice = "0" ->
              /\ menu' = "main_menu"
              /\ out' = MenuOut("section_1_menu", <<>>, NULL)
              /\ SelectOnly /\ UNCHANGED today
         [] OTHER ->
              /\ Stay
              /\ out' = MenuOut("section_1_menu", <<InvalidOption>>, NULL)
              /\ SelectOnly /\ UNCHANGED today

\* One turn of section_2_menu's loop; text is what is typed at "Enter order
\* ID: ", which only choice 3 asks for.  int() of a text that isdigit()
\* accepted can still raise ValueError, which nothing catches.
section_2_menu(choice, text) ==
    /\ menu = "section_2_menu"
    /\ IF choice = "3" THEN ReadTwo(choice, text) ELSE Read(choice)
    /\ CASE choice = "1" -> orders_per_customer /\ Stay
         [] choice = "2" -> driver_workload /\ Stay
         [] choice = "3" ->
              LET order_id == Strip(text)
              IN  IF ~IsDigit(order_id)
                  THEN /\ Stay
                       /\ out' = MenuOut("section_2_menu",
                                         <<InvalidOrderId>>, NULL)
                       /\ SelectOnly /\ UNCHANGED today
                  ELSE IF ~IntParses(order_id)
                  THEN /\ Uncaught
                       /\ out' = MenuOut("section_2_menu", <<>>,
                                         Some("ValueError"))
                       /\ SelectOnly /\ UNCHANGED today
                  ELSE delivery_lookup_by_id(IntOf(order_id)) /\ Stay
         [] choice = "0" ->
              /\ menu' = "main_menu"
              /\ out' = MenuOut("section_2_menu", <<>>, NULL)
              /\ SelectOnly /\ UNCHANGED today
         [] OTHER ->
              /\ Stay
              /\ out' = MenuOut("section_2_menu", <<InvalidOption>>, NULL)
              /\ SelectOnly /\ UNCHANGED today

\* one turn of section_3_menu's loop
section_3_menu(choice) ==
    /\ menu = "section_3_menu"
    /\ Read(choice)
    /\ CASE choice = "1" -> orders_per_date /\ Stay
         [] choice = "2" -> deliveries_per_date /\ Stay
         [] choice = "3" -> customer_signups_per_month /\ Stay
         [] choice = "0" ->
              /\ menu' = "main_menu"
              /\ out' = MenuOut("section_3_menu", <<>>, NULL)
              /\ SelectOnly /\ UNCHANGED today
         [] OTHER ->
              /\ Stay
              /\ out' = MenuOut("section_3_menu", <<InvalidOption>>, NULL)
              /\ SelectOnly /\ UNCHANGED today

\* One turn of section_4_menu's loop; text is what is typed at "Enter order
\* value threshold", which only choice 3 asks for.  The bare except also
\* covers high_value_orders, which does not raise on a number.
section_4_menu(choice, text) ==
    /\ menu = "section_4_menu"
    /\ IF choice = "3" THEN ReadTwo(choice, text) ELSE Read(choice)
    /\ CASE choice = "1" -> top_customers_by_spend(DefaultLimit) /\ Stay
         [] choice = "2" -> rank_drivers_by_deliveries /\ Stay
         [] choice = "3" ->
              IF ~FloatParses(text)
              THEN /\ Stay
                   /\ out' = MenuOut("section_4_menu",
                                     <<InvalidThreshold>>, NULL)
                   /\ SelectOnly /\ UNCHANGED today
              ELSE high_value_orders(FloatPence(text)) /\ Stay
         [] choice = "0" ->
              /\ menu' = "main_menu"
              /\ out' = MenuOut("section_4_menu", <<>>, NULL)
              /\ SelectOnly /\ UNCHANGED today
         [] OTHER ->
              /\ Stay
              /\ out' = MenuOut("section_4_menu", <<InvalidOption>>, NULL)
              /\ SelectOnly /\ UNCHANGED today

\* ------------------------------------------------ the menus: specification
\* orders 1..n whose totals alternate between the two order totals
MenuOrderTables ==
    {t \in OrderTables :
        \A o \in t : \A x \in OrderTotals :
           o.order_total <= x \/ o.order_id % 2 = 0}

\* main_menu(conn) is entered over a database of a few rows: every driver,
\* and at most one delivery, of the first order
InitMenu ==
    /\ customers \in {t \in CustomerTables : Cardinality(t) >= MaxCustomers - 1}
    /\ orders \in MenuOrderTables
    /\ drivers = {DriverRow(i) : i \in 1..MaxDrivers}
    /\ deliveries \in {t \in DeliveriesOf(orders) :
                          \A d \in t : d.order_id = 1}
    /\ NoSession2
    /\ out = NoOutput
    /\ menu = "main_menu"
    /\ typed = NoInput

\* what can be typed at the second prompt, which only choice 3 shows
SecondPrompt(choice, inputs) == IF choice = "3" THEN inputs ELSE {<<>>}

NextMenu ==
    \/ \E choice \in Choices : main_menu(choice)
    \/ \E choice \in Choices : section_1_menu(choice)
    \/ \E choice \in Choices :
          \E text \in SecondPrompt(choice, OrderIdInputs) :
             section_2_menu(choice, text)
    \/ \E choice \in Choices : section_3_menu(choice)
    \/ \E choice \in Choices :
          \E text \in SecondPrompt(choice, ThresholdInputs) :
             section_4_menu(choice, text)

SpecMenu == InitMenu /\ [][NextMenu]_vars

\* ------------------------------------------------ section 1: specification
NextSummaries ==
    \/ total_customers /\ Direct
    \/ customer_signup_range /\ Direct
    \/ order_summary_stats /\ Direct
    \/ driver_summary /\ Direct

SpecSummaries == InitRankings /\ [][NextSummaries]_vars

\* ------------------------------------------------ the menus: claims
\* C15 as stated: order_summary_stats completes without raising, whatever
\* the orders table holds, and prints its four lines.
C15_AsStated ==
    out.op = "order_summary_stats" =>
        /\ out.raised = NULL
        /\ Len(out.lines) = 4

MenuLoops == {"main_menu", "section_1_menu", "section_2_menu",
              "section_3_menu", "section_4_menu"}

\* the last turn asked for an order id (section 2, option 3) or for a
\* threshold (section 4, option 3)
AskedOrderId ==
    /\ typed.text # NULL
    /\ out.op \in {"section_2_menu", "delivery_lookup_by_id"}
AskedThreshold ==
    /\ typed.text # NULL
    /\ out.op \in {"section_4_menu", "high_value_orders"}

\* C14 as stated: an order id or a threshold that does not parse as a
\* number is answered with the invalid-value message and nothing else, no
\* query is run and the same section prompts again; the message is shown
\* only for an input that does not parse.
C14_AsStated ==
    /\ AskedOrderId =>
          /\ ~IntParses(Val(typed.text)) =>
                /\ out = MenuOut("section_2_menu", <<InvalidOrderId>>, NULL)
                /\ menu = "section_2_menu"
          /\ (out.op = "section_2_menu" /\ out.lines = <<InvalidOrderId>>) =>
                ~IntParses(Val(typed.text))
    /\ AskedThreshold =>
          /\ ~FloatParses(Val(typed.text)) =>
                /\ out = MenuOut("section_4_menu", <<InvalidThreshold>>, NULL)
                /\ menu = "section_4_menu"
          /\ (out.op = "section_4_menu" /\ out.lines = <<InvalidThreshold>>) =>
                FloatParses(Val(typed.text)) = FALSE

\* C18: no step of the menus and of the reports they run changes a table,
\* whether the turn printed a report, refused its input or raised.
C18_TablesUnchanged == [][tables' = tables]_vars

\* a report raised inside a menu, over tables that hold rows
C18_Witness ==
    /\ menu = "raised"
    /\ out.op = "order_summary_stats"
    /\ customers # {}
    /\ drivers # {}

\* the choices a menu knows
Recognised(m) ==
    IF m \in {"main_menu", "section_1_menu"} THEN {"0", "1", "2", "3", "4"}
    ELSE {"0", "1", "2", "3"}

\* C20 as stated: in every turn of a menu, a choice the menu does not know
\* prints the invalid-option line, runs nothing and leaves the menu as it
\* is; 0 in a section goes back to the main menu; the session ends only on
\* 0 at the main menu; a turn that ran a report leaves the menu as it is.
C20_AsStated ==
    [][LET choice == Val(typed'.choice)
       IN  /\ choice \notin Recognised(menu) =>
                 /\ out' = MenuOut(menu, <<InvalidOption>>, NULL)
                 /\ menu' = menu
           /\ (menu # "main_menu" /\ choice = "0") => menu' = "main_menu"
           /\ menu' \notin MenuLoops => (menu = "main_menu" /\ choice = "0")
           /\ out'.op \notin MenuLoops => menu' = menu]_vars

\* ------------------------------------------------ running a report again
\* some days pass: DATE('now') stands for a later day
DayPasses ==
    /\ \E d \in Todays : d > today /\ today' = d
    /\ UNCHANGED <<tables, out, menu, typed>>

\* the tables of task15 (short of the largest order_items tables) or those
\* of task17
InitRerun ==
    \/ InitBaskets /\ Cardinality(order_items) < MaxItems
    \/ InitForecast

NextRerun ==
    \/ task15_category_cooccurrence
    \/ task17_forecast_revenue
    \/ DayPasses

SpecRerun == InitRerun /\ [][NextRerun]_vars

\* C19 as stated: a report run again over the same tables gives what it
\* gave before, task15 and task17 included.
C19_AsStated ==
    [][/\ (/\ out.op = "task15_category_cooccurrence"
           /\ out'.op = "task15_category_cooccurrence") =>
              out'.cooccurrence = out.cooccurrence
       /\ (/\ out.op = "task17_forecast_revenue"
           /\ out'.op = "task17_forecast_revenue") =>
              /\ out'.returned = out.returned
              /\ out'.lines = out.lines]_vars

\* C19, amended: task15 run again over the same tables gives the same
\* matrix, whatever order the set of an order's categories is listed in;
\* task17 run again over the same tables gives the same lines and the same
\* return value when it runs on the same day.
C19_SameTablesSameDay ==
    [][/\ (/\ out.op = "task15_category_cooccurrence"
           /\ out'.op = "task15_category_cooccurrence") =>
              out'.cooccurrence = out.cooccurrence
       /\ (/\ out.op = "task17_forecast_revenue"
           /\ out'.op = "task17_forecast_revenue"
           /\ out'.now = out.now) =>
              /\ out'.returned = out.returned
              /\ out'.lines = out.lines]_vars

\* task15 has run over an order of two categories, which the set could
\* list in either order
C19_Witness ==
    /\ out.op = "task15_category_cooccurrence"
    /\ \E lists \in OrderCategoryLists :
          \E o \in DOMAIN lists : Len(lists[o]) = 2
    /\ Cardinality(OrderCategoryLists) > 1

\* task17 gave a forecast and days have passed since
C19_WitnessLater ==
    /\ out.op = "task17_forecast_revenue"
    /\ out.returned # NULL
    /\ out.now < today
====
